---- MODULE Spec2Model ----
(***************************************************************************)
(* A model of paper-fluff-cutter: the PDF page truncator (pdf.py), the     *)
(* analysis orchestrator (analyzer.py), the provider classes (providers/), *)
(* the configuration resolver (config.py), the output layer (output.py)    *)
(* and the analyze command with its single size-triggered retry (cli.py).  *)
(*                                                                         *)
(* Text is modelled by TLA+ strings, on which Len, SubSeq and \o act as    *)
(* on sequences of characters.  An optional value (Python's None or a      *)
(* value) is the empty tuple or a one-element tuple.                       *)
(***************************************************************************)
EXTENDS Integers, Sequences, FiniteSets, TLC

VARIABLES
    fs,          \* the file system: path -> file
    env,         \* the process environment: variable name -> text ("" = unset)
    args,        \* the parsed command line of `fluff-cutter analyze`
    pc,          \* position of cmd_analyze
    config,      \* cmd_analyze's local `config` (merged configuration)
    llm_provider,\* cmd_analyze's provider instance
    doc,         \* cmd_analyze's locals pdf_base64, total_pages, was_truncated, filename
    result,      \* cmd_analyze's local `result`
    calls,       \* the remote calls made so far, oldest first
    stdout,      \* lines printed to standard output
    stderr,      \* lines printed to standard error
    exit_code,   \* the process exit status, once the command has ended
    fn           \* the last direct call of a function and what it returned

vars == <<fs, env, args, pc, config, llm_provider, doc, result, calls,
          stdout, stderr, exit_code, fn>>

---------------------------------------------------------------------------
(* Bounds of the model.                                                    *)

\* Documents have 0..MaxPages pages.
MaxPages == 52
\* Page budgets range over MinBudget..MaxBudget (argparse's type=int accepts
\* any integer).
MaxBudget == 52

---------------------------------------------------------------------------
(* Optional values and small helpers.                                      *)

None == <<>>
Some(v) == <<v>>
IsNone(o) == o = <<>>
Val(o) == o[1]

Min(a, b) == IF a < b THEN a ELSE b

---------------------------------------------------------------------------
(* Python's str operations, on TLA+ strings.                               *)

UpperChars == "ABCDEFGHIJKLMNOPQRSTUVWXYZ"
LowerChars == "abcdefghijklmnopqrstuvwxyz"
Whitespace == {" ", "\n", "\t", "\r"}

CharAt(s, i) == SubSeq(s, i, i)

\* the position of the one-character text c in alphabet, or 0
IndexIn(c, alphabet) ==
    IF \E i \in 1..Len(alphabet) : CharAt(alphabet, i) = c
    THEN CHOOSE i \in 1..Len(alphabet) : CharAt(alphabet, i) = c
    ELSE 0

\* the letters that have another case, and their other case
UpperSet == {CharAt(UpperChars, i) : i \in 1..Len(UpperChars)}
LowerSet == {CharAt(LowerChars, i) : i \in 1..Len(LowerChars)}
ToLower == [c \in UpperSet |-> CharAt(LowerChars, IndexIn(c, UpperChars))]
ToUpper == [c \in LowerSet |-> CharAt(UpperChars, IndexIn(c, LowerChars))]

LowerChar(c) == IF c \in UpperSet THEN ToLower[c] ELSE c

UpperChar(c) == IF c \in LowerSet THEN ToUpper[c] ELSE c

RECURSIVE Concat(_, _)
\* the texts of the sequence pieces from position i on, put end to end
Concat(pieces, i) ==
    IF i > Len(pieces) THEN "" ELSE pieces[i] \o Concat(pieces, i + 1)

\* str.lower()
StrLower(s) == Concat([i \in 1..Len(s) |-> LowerChar(CharAt(s, i))], 1)

\* str.upper()
StrUpper(s) == Concat([i \in 1..Len(s) |-> UpperChar(CharAt(s, i))], 1)

\* `sub in s`
StrContains(s, sub) ==
    \E i \in 1..(Len(s) - Len(sub) + 1) : SubSeq(s, i, i + Len(sub) - 1) = sub

\* str.startswith(prefix)
StartsWith(s, prefix) ==
    Len(s) >= Len(prefix) /\ SubSeq(s, 1, Len(prefix)) = prefix

\* str.endswith(suffix)
EndsWith(s, suffix) ==
    Len(s) >= Len(suffix) /\ SubSeq(s, Len(s) - Len(suffix) + 1, Len(s)) = suffix

\* str.lstrip()
StrLStrip(s) ==
    IF \A i \in 1..Len(s) : CharAt(s, i) \in Whitespace THEN ""
    ELSE SubSeq(s, CHOOSE i \in 1..Len(s) :
                       /\ CharAt(s, i) \notin Whitespace
                       /\ \A j \in 1..(i - 1) : CharAt(s, j) \in Whitespace,
                Len(s))

\* str.rstrip()
StrRStrip(s) ==
    IF \A i \in 1..Len(s) : CharAt(s, i) \in Whitespace THEN ""
    ELSE SubSeq(s, 1, CHOOSE i \in 1..Len(s) :
                          /\ CharAt(s, i) \notin Whitespace
                          /\ \A j \in (i + 1)..Len(s) : CharAt(s, j) \in Whitespace)

\* str.strip()
StrStrip(s) == StrRStrip(StrLStrip(s))

RECURSIVE IndexFrom(_, _, _)
\* the least position >= i of the one-character text c in s, or 0
IndexFrom(s, c, i) ==
    IF i > Len(s) THEN 0
    ELSE IF CharAt(s, i) = c THEN i
    ELSE IndexFrom(s, c, i + 1)

\* the position of the first occurrence of the one-character text c in s, or 0
FirstIndex(s, c) == IndexFrom(s, c, 1)

RECURSIVE IndexBefore(_, _, _)
\* the greatest position <= i of the one-character text c in s, or 0
IndexBefore(s, c, i) ==
    IF i < 1 THEN 0
    ELSE IF CharAt(s, i) = c THEN i
    ELSE IndexBefore(s, c, i - 1)

\* the position of the last occurrence of the one-character text c in s, or 0
LastIndex(s, c) == IndexBefore(s, c, Len(s))

RECURSIVE StrSplit(_, _)
\* str.split(sep) for a one-character separator: the list of pieces
StrSplit(s, sep) ==
    LET k == FirstIndex(s, sep)
    IN  IF k = 0 THEN <<s>>
        ELSE <<SubSeq(s, 1, k - 1)>> \o StrSplit(SubSeq(s, k + 1, Len(s)), sep)

\* str.split(sep, 1)[1]: the text after the first separator
AfterFirst(s, sep) == SubSeq(s, FirstIndex(s, sep) + 1, Len(s))

RECURSIVE StrJoin(_, _)
\* sep.join(pieces)
StrJoin(sep, pieces) ==
    IF Len(pieces) = 0 THEN ""
    ELSE IF Len(pieces) = 1 THEN pieces[1]
    ELSE pieces[1] \o sep \o StrJoin(sep, Tail(pieces))

Digits == "0123456789"

RECURSIVE NatToStr(_)
NatToStr(n) ==
    IF n < 10 THEN CharAt(Digits, n + 1)
    ELSE NatToStr(n \div 10) \o CharAt(Digits, (n % 10) + 1)

\* str(n) / f"{n}" for an integer
IntToStr(n) == IF n < 0 THEN "-" \o NatToStr(0 - n) ELSE NatToStr(n)

---------------------------------------------------------------------------
(* pathlib.Path, on path texts with "/" as the separator.                  *)

\* Path(p).name: the final component
PathName(p) == SubSeq(p, LastIndex(p, "/") + 1, Len(p))

\* Path(p).suffix: the final component's last dot and what follows it, unless
\* the dot leads or ends the name
PathSuffix(p) ==
    LET k == LastIndex(p, ".")
    IN  IF k > LastIndex(p, "/") + 1 /\ k < Len(p) THEN SubSeq(p, k, Len(p)) ELSE ""

\* Path(p).with_suffix(suffix)
PathWithSuffix(p, suffix) == SubSeq(p, 1, Len(p) - Len(PathSuffix(p))) \o suffix

\* Path(p).exists()
PathExists(files, p) == p \in DOMAIN files

---------------------------------------------------------------------------
(* Files and PDF documents.  A file's bytes are a record: a PDF with its   *)
(* pages in order and the program that wrote it, or bytes that no PDF      *)
(* reader parses.  A page is identified by its content label.              *)

\* the content of page i of the paper on disk
PageLabel(i) == 100 + i

\* the bytes of a P-page PDF as found on disk
PdfBytes(P) == [kind |-> "pdf", pages |-> [i \in 1..P |-> PageLabel(i)], producer |-> "original"]

\* bytes that are not a parseable PDF
JunkBytes == [kind |-> "junk", pages |-> <<>>, producer |-> "original"]

\* what a Python call gives: a returned value, or a raised exception with str(e)
Returned(v) == [raised |-> FALSE, msg |-> "", value |-> v]
Raised(m) == [raised |-> TRUE, msg |-> m, value |-> <<>>]

\* a reader that takes bytes it cannot parse for a document without pages
PdfReaderLenient(files, pdf_path) ==
    IF ~PathExists(files, pdf_path)
    THEN Raised("[Errno 2] No such file or directory: '" \o pdf_path \o "'")
    ELSE Returned(files[pdf_path].pages)

\* pypdf's PdfReader(path): the parsed pages, or PdfReadError
PdfReader(files, pdf_path) ==
    IF ~PathExists(files, pdf_path)
    THEN Raised("[Errno 2] No such file or directory: '" \o pdf_path \o "'")
    ELSE IF files[pdf_path].kind # "pdf"
    THEN Raised("EOF marker not found")
    ELSE Returned(files[pdf_path].pages)

\* pdf.py DEFAULT_MAX_PAGES
DEFAULT_MAX_PAGES == 50

\* get_pdf_page_count(pdf_path): len(reader.pages)
get_pdf_page_count(files, pdf_path) ==
    LET reader == PdfReader(files, pdf_path)
    IN  IF reader.raised THEN reader ELSE Returned(Len(reader.value))

RECURSIVE AddPages(_, _, _, _)
\* truncate_pdf's loop `for i in range(n): writer.add_page(reader.pages[i])`,
\* from loop index i (0-based, as in the source) with the writer's pages so far
AddPages(writer, pages, i, n) ==
    IF i >= n THEN writer
    ELSE AddPages(Append(writer, pages[i + 1]), pages, i + 1, n)

\* a loop bound one page too long
TruncateCountOffByOne(max_pages, n_pages) == Min(max_pages + 1, n_pages)

\* the loop bound of truncate_pdf: min(max_pages, len(reader.pages))
TruncateCount(max_pages, n_pages) == Min(max_pages, n_pages)

\* truncate_pdf(pdf_path, max_pages): the bytes PdfWriter writes
truncate_pdf(files, pdf_path, max_pages) ==
    LET reader == PdfReader(files, pdf_path)
    IN  IF reader.raised THEN reader
        ELSE Returned([kind |-> "pdf",
                       pages |-> AddPages(<<>>, reader.value, 0,
                                          TruncateCount(max_pages, Len(reader.value))),
                       producer |-> "pypdf"])

\* base64.standard_b64encode(data).decode("utf-8"): a reversible transport
\* encoding of the bytes
b64encode(data) == [b64 |-> data]
b64decode(text) == text.b64

\* the test without the comparison: every budgeted read is rewritten
MustTruncateWhenBudget(max_pages, total_pages) == ~IsNone(max_pages)

\* the test with >= for >
MustTruncateAtLimit(max_pages, total_pages) ==
    ~IsNone(max_pages) /\ total_pages >= Val(max_pages)

\* read_pdf_as_base64's test `max_pages is not None and total_pages > max_pages`
MustTruncate(max_pages, total_pages) ==
    ~IsNone(max_pages) /\ total_pages > Val(max_pages)

\* read_pdf_as_base64(pdf_path, max_pages): (base64 text, total_pages, was_truncated)
read_pdf_as_base64(files, pdf_path, max_pages) ==
    IF ~PathExists(files, pdf_path)
    THEN Raised("PDF file not found: " \o pdf_path)
    ELSE IF StrLower(PathSuffix(pdf_path)) # ".pdf"
    THEN Raised("File is not a PDF: " \o pdf_path)
    ELSE LET total_pages == get_pdf_page_count(files, pdf_path)
         IN  IF total_pages.raised THEN total_pages
             ELSE IF MustTruncate(max_pages, total_pages.value)
             THEN LET pdf_data == truncate_pdf(files, pdf_path, Val(max_pages))
                  IN  IF pdf_data.raised THEN pdf_data
                      ELSE Returned([pdf_base64 |-> b64encode(pdf_data.value),
                                     total_pages |-> total_pages.value,
                                     was_truncated |-> TRUE])
             ELSE Returned([pdf_base64 |-> b64encode(files[pdf_path]),
                            total_pages |-> total_pages.value,
                            was_truncated |-> FALSE])

\* get_pdf_filename(pdf_path)
get_pdf_filename(pdf_path) == PathName(pdf_path)

---------------------------------------------------------------------------
(* Providers (providers/base.py, openai.py, anthropic.py, openrouter.py).  *)
(* An instance is a record of its class, api_key and model.                *)

\* cli.py PROVIDERS: the registry's keys
PROVIDERS == {"openai", "anthropic", "openrouter"}

\* the default_model property of each class
default_model(cls) ==
    CASE cls = "openai" -> "gpt-5.2"
      [] cls = "anthropic" -> "claude-opus-4-5"
      [] cls = "openrouter" -> "anthropic/claude-sonnet-4-5"

\* the provider_name property of each class
provider_name(cls) ==
    CASE cls = "openai" -> "OpenAI"
      [] cls = "anthropic" -> "Anthropic"
      [] cls = "openrouter" -> "OpenRouter"

\* Python's `a or b` on an optional text: a when it is a non-empty value
OrElse(a, b) == IF ~IsNone(a) /\ Val(a) # "" THEN Val(a) ELSE b

\* a constructor that ignores its model argument
NewProviderIgnoringModel(cls, api_key, model) ==
    [cls |-> cls, api_key |-> api_key, model |-> default_model(cls)]

\* BaseLLMProvider.__init__(api_key, model)
NewProvider(cls, api_key, model) ==
    [cls |-> cls, api_key |-> api_key, model |-> OrElse(model, default_model(cls))]

\* BaseLLMProvider.get_model_info()
get_model_info(provider) ==
    provider_name(provider.cls) \o " (" \o provider.model \o ")"

---------------------------------------------------------------------------
(* The analysis orchestrator (analyzer.py).                                *)

\* analyzer.py ANALYSIS_PROMPT, by its last lines
ANALYSIS_PROMPT == "TITLE: [Paper Title]\n\nThen provide your analysis."

\* the test of analyze_paper's loop: line.strip().upper().startswith("TITLE:")
IsTitleLine(line) == StartsWith(StrUpper(StrStrip(line)), "TITLE:")

\* the scan without its `break`: the last title line wins
LastTitleLine(lines) ==
    LET at == {i \in 1..Len(lines) : IsTitleLine(lines[i])}
    IN  IF at = {} THEN 0 ELSE CHOOSE i \in at : \A j \in at : i >= j

\* the index of the first title line of lines, or 0
FirstTitleLine(lines) ==
    LET at == {i \in 1..Len(lines) : IsTitleLine(lines[i])}
    IN  IF at = {} THEN 0 ELSE CHOOSE i \in at : \A j \in at : i <= j

\* the title and analysis analyze_paper extracts from the provider's reply
ParseReply(raw_response) ==
    LET lines == StrSplit(StrStrip(raw_response), "\n")
        i == FirstTitleLine(lines)
    IN  IF i = 0
        THEN [title |-> "Unknown Title", analysis |-> raw_response]
        ELSE [title |-> StrStrip(AfterFirst(lines[i], ":")),
              analysis |-> StrStrip(StrJoin("\n", SubSeq(lines, i + 1, Len(lines))))]

\* what a provider's remote call may reply
Replies ==
    { "TITLE: Deep Learning for Cats\n\nBody text",
      "title: Lower Case Title\n\nContent",
      "Just analysis, no marker\n",
      "Preface\nTITLE: A\nThe TITLE: of it" }

\* what analyze_paper extracts from each of these replies
ParsedReplies == [raw_response \in Replies |-> ParseReply(raw_response)]

\* analyze_paper(provider, pdf_base64, filename), given what the provider's
\* remote call gives (its reply, or the exception it raises): the result
\* dictionary, or the same exception
analyze_paper(provider, remote) ==
    IF remote.raised THEN remote
    ELSE LET parsed == IF remote.value \in Replies THEN ParsedReplies[remote.value]
                       ELSE ParseReply(remote.value)
         IN  Returned([title |-> parsed.title,
                       analysis |-> parsed.analysis,
                       model_info |-> get_model_info(provider)])

\* the last two arguments in the wrong order
RemoteCallSwapped(provider, pdf_base64, filename, remote) ==
    [provider |-> provider, pdf_base64 |-> pdf_base64, filename |-> ANALYSIS_PROMPT,
     prompt |-> filename, raised |-> remote.raised, msg |-> remote.msg,
     reply |-> remote.value]

\* the remote call analyze_paper makes: provider.analyze_paper(pdf_base64,
\* filename, ANALYSIS_PROMPT)
RemoteCall(provider, pdf_base64, filename, remote) ==
    [provider |-> provider, pdf_base64 |-> pdf_base64, filename |-> filename,
     prompt |-> ANALYSIS_PROMPT, raised |-> remote.raised, msg |-> remote.msg,
     reply |-> remote.value]

---------------------------------------------------------------------------
(* Output (output.py).                                                     *)

\* format_analysis(title, analysis, model_info), with date_str the current date
format_analysis(title, analysis, model_info, date_str) ==
    "# Paper Analysis: " \o title \o "\n\n" \o analysis
        \o "\n\n---\n*Analyzed with " \o model_info \o " on " \o date_str \o "*\n"

\* a text file holding content
TextFile(content) == [kind |-> "text", pages |-> <<>>, producer |-> "fluff-cutter",
                      content |-> content]

---------------------------------------------------------------------------
(* Configuration (config.py).  A configuration dictionary is a function    *)
(* from its keys to texts.                                                 *)

\* config.py CONFIG_FILE
CONFIG_FILE == "~/.config/fluff-cutter/config.json"

\* config.py DEFAULT_PROVIDER
DEFAULT_PROVIDER == "anthropic"

EmptyDict == [k \in {} |-> ""]

\* dict.get(key): the value, or None
DictGet(d, key) == IF key \in DOMAIN d THEN Some(d[key]) ELSE None

\* dict.get(key, default)
DictGetOr(d, key, default) == IF key \in DOMAIN d THEN d[key] ELSE default

\* d[key] = value
DictSet(d, key, value) == [k \in DOMAIN d \cup {key} |-> IF k = key THEN value ELSE d[k]]

\* Python's truth of an optional text
Truthy(o) == ~IsNone(o) /\ Val(o) # ""

\* load_config_file(): the file's dictionary, or {} when the file is absent
\* or is not JSON
load_config_file(files) ==
    IF ~PathExists(files, CONFIG_FILE) THEN EmptyDict
    ELSE IF files[CONFIG_FILE].kind # "json" THEN EmptyDict
    ELSE files[CONFIG_FILE].content

\* one `if os.environ.get(var): config[key] = os.environ[var]` of load_config
EnvOverride(d, environ, var, key) ==
    IF environ[var] # "" THEN DictSet(d, key, environ[var]) ELSE d

\* load_config(): the file's values overridden by the environment's
load_config(files, environ) ==
    LET c0 == load_config_file(files)
        c1 == EnvOverride(c0, environ, "OPENAI_API_KEY", "openai_api_key")
        c2 == EnvOverride(c1, environ, "ANTHROPIC_API_KEY", "anthropic_api_key")
        c3 == EnvOverride(c2, environ, "FLUFF_CUTTER_PROVIDER", "default_provider")
        c4 == EnvOverride(c3, environ, "FLUFF_CUTTER_OPENAI_MODEL", "openai_model")
        c5 == EnvOverride(c4, environ, "FLUFF_CUTTER_ANTHROPIC_MODEL", "anthropic_model")
    IN  c5

\* a lookup that falls back to the key of any other provider
get_api_key_of_any(provider, cfg) ==
    IF provider \o "_api_key" \in DOMAIN cfg THEN Some(cfg[provider \o "_api_key"])
    ELSE IF "anthropic_api_key" \in DOMAIN cfg THEN Some(cfg["anthropic_api_key"])
    ELSE DictGet(cfg, "openai_api_key")

\* get_api_key(provider, config)
get_api_key(provider, cfg) == DictGet(cfg, provider \o "_api_key")

\* get_default_provider(config)
get_default_provider(cfg) == DictGetOr(cfg, "default_provider", DEFAULT_PROVIDER)

\* get_default_model(provider, config)
get_default_model(provider, cfg) == DictGet(cfg, provider \o "_model")

\* is_configured()
is_configured(files, environ) ==
    LET cfg == load_config(files, environ)
    IN  Truthy(DictGet(cfg, "openai_api_key")) \/ Truthy(DictGet(cfg, "anthropic_api_key"))

---------------------------------------------------------------------------
(* The inputs of the model.                                                *)

\* the least page budget tried; argparse's type=int accepts zero and negatives
MinBudget == 0 - 1

\* values of --max-pages: absent, or an integer
Budgets == {None} \cup {Some(b) : b \in MinBudget..MaxBudget}

\* the environment variables config.py reads
EnvVars == {"OPENAI_API_KEY", "ANTHROPIC_API_KEY", "FLUFF_CUTTER_PROVIDER",
            "FLUFF_CUTTER_OPENAI_MODEL", "FLUFF_CUTTER_ANTHROPIC_MODEL"}

NoEnv == [v \in EnvVars |-> ""]

JsonFile(d) == [kind |-> "json", pages |-> <<>>, producer |-> "fluff-cutter", content |-> d]

\* the file systems a run starts from, the paper apart: no configuration
\* file, or one written by `fluff-cutter init`
NoFiles == [p \in {} |-> JunkBytes]
OpenAIConfigFile ==
    [p \in {CONFIG_FILE} |->
        JsonFile([k \in {"openai_api_key", "default_provider", "openai_model"} |->
                     CASE k = "openai_api_key" -> "sk-file-openai"
                       [] k = "default_provider" -> "openai"
                       [] k = "openai_model" -> "gpt-4o"])]

\* the configurations of the analyze runs: the environment and the files
RunConfigs ==
    { [environ |-> [NoEnv EXCEPT !["ANTHROPIC_API_KEY"] = "sk-ant-env"], files |-> NoFiles],
      [environ |-> NoEnv, files |-> OpenAIConfigFile],
      [environ |-> NoEnv, files |-> NoFiles] }

\* the papers of the analyze runs: a path and the file there, if any
Papers ==
    { [path |-> "papers/paper.pdf", file |-> Some(PdfBytes(P))] : P \in 0..MaxPages }
    \cup { [path |-> "papers/scan.PDF", file |-> Some(PdfBytes(2))],
           [path |-> "papers/notes.txt", file |-> Some(PdfBytes(2))],
           [path |-> "papers/broken.pdf", file |-> Some(JunkBytes)],
           [path |-> "papers/missing.pdf", file |-> None] }

\* the messages of the exceptions a provider's remote call may raise
ErrorMessages ==
    { "prompt is too long: 208310 tokens > 200000 maximum",
      "Prompt Is Too Long: 9 TOKENS",
      "Request too large: 9 tokens",
      "File name too long",
      "Invalid token: 401 Unauthorized",
      "Connection error." }

\* what a provider's remote call may give
RemoteOutcomes == {Returned(r) : r \in Replies} \cup {Raised(m) : m \in ErrorMessages}

\* the dates a run may take place on
Dates == {"2025-01-31"}

---------------------------------------------------------------------------
(* The state before cmd_analyze runs.                                      *)

NoDoc == [pdf_base64 |-> b64encode(JunkBytes), total_pages |-> 0,
          was_truncated |-> FALSE, filename |-> ""]
NoProvider == [cls |-> "", api_key |-> "", model |-> ""]
NoResult == [title |-> "", analysis |-> "", model_info |-> ""]
NoCall == [name |-> "", max_pages |-> None, out |-> Returned(<<>>)]

InitRun(cfg, paper, max_pages) ==
    /\ fs = IF IsNone(paper.file) THEN cfg.files
            ELSE [p \in DOMAIN cfg.files \cup {paper.path} |->
                     IF p = paper.path THEN Val(paper.file) ELSE cfg.files[p]]
    /\ env = cfg.environ
    /\ args = [paper_path |-> paper.path, provider |-> None, model |-> None,
               max_pages |-> max_pages]
    /\ pc = "check_config"
    /\ config = EmptyDict
    /\ llm_provider = NoProvider
    /\ doc = NoDoc
    /\ result = NoResult
    /\ calls = <<>>
    /\ stdout = <<>>
    /\ stderr = <<>>
    /\ exit_code = None
    /\ fn = NoCall

Init ==
    \E cfg \in RunConfigs, paper \in Papers, max_pages \in Budgets :
        InitRun(cfg, paper, max_pages)

---------------------------------------------------------------------------
(* cmd_analyze (cli.py), one action per stretch of the function between    *)
(* two points where it may stop or call a provider.                        *)

\* an `except` that swallows the failure: nothing printed, the run ends well
ExitSilently(lines) ==
    /\ stderr' = stderr
    /\ exit_code' = Some(0)
    /\ pc' = "done"

\* sys.exit(1) after the lines printed to standard error
ExitWithError(lines) ==
    /\ stderr' = stderr \o lines
    /\ exit_code' = Some(1)
    /\ pc' = "failed"

\* `if not is_configured(): ... sys.exit(1)`
CheckConfigured ==
    /\ pc = "check_config"
    /\ IF ~is_configured(fs, env)
       THEN /\ ExitWithError(<<"Error: No API keys configured.",
                               "Run 'fluff-cutter init' to set up your API keys.",
                               "Or set environment variables:",
                               "  export OPENAI_API_KEY=sk-...",
                               "  export ANTHROPIC_API_KEY=sk-ant-...">>)
            /\ UNCHANGED <<fs, env, args, config, llm_provider, doc, result, calls,
                           stdout, fn>>
       ELSE /\ pc' = "check_path"
            /\ UNCHANGED <<fs, env, args, config, llm_provider, doc, result, calls,
                           stdout, stderr, exit_code, fn>>

\* `if not Path(paper_path).exists(): ... sys.exit(1)`
ValidatePath ==
    /\ pc = "check_path"
    /\ IF ~PathExists(fs, args.paper_path)
       THEN /\ ExitWithError(<<"Error: File not found: " \o args.paper_path>>)
            /\ UNCHANGED <<fs, env, args, config, llm_provider, doc, result, calls,
                           stdout, fn>>
       ELSE /\ pc' = "resolve"
            /\ UNCHANGED <<fs, env, args, config, llm_provider, doc, result, calls,
                           stdout, stderr, exit_code, fn>>

\* from load_config() to the two lines printed once the provider instance
\* exists
ResolveProvider ==
    /\ pc = "resolve"
    /\ LET cfg == load_config(fs, env)
           name == OrElse(args.provider, get_default_provider(cfg))
           api_key == get_api_key(name, cfg)
           model_to_use == OrElse(args.model, OrElse(get_default_model(name, cfg), ""))
           made == NewProvider(name, Val(api_key),
                               IF model_to_use = "" THEN None ELSE Some(model_to_use))
       IN  /\ config' = cfg
           /\ IF ~Truthy(api_key)
              THEN /\ ExitWithError(
                          <<"Error: No API key configured for " \o name \o ".",
                            "Run 'fluff-cutter init' or set " \o StrUpper(name)
                                \o "_API_KEY.">>)
                   /\ UNCHANGED <<llm_provider, stdout>>
              ELSE IF name \notin PROVIDERS
              THEN \* PROVIDERS[provider_name] raises KeyError, which nothing catches
                   /\ stderr' = Append(stderr, "KeyError: '" \o name \o "'")
                   /\ exit_code' = Some(1)
                   /\ pc' = "crashed"
                   /\ UNCHANGED <<llm_provider, stdout>>
              ELSE /\ llm_provider' = made
                   /\ stdout' = stdout \o <<"Analyzing paper: " \o args.paper_path,
                                            "Using: " \o get_model_info(made),
                                            "">>
                   /\ pc' = "read"
                   /\ UNCHANGED <<stderr, exit_code>>
    /\ UNCHANGED <<fs, env, args, doc, result, calls, fn>>

\* the `try: read_pdf_as_base64(paper_path, max_pages) ... except` block
ReadPdf ==
    /\ pc = "read"
    /\ \E read \in {read_pdf_as_base64(fs, args.paper_path, args.max_pages)} :
           IF read.raised
           THEN /\ stdout' = Append(stdout, "Reading PDF...")
                /\ ExitWithError(<<"Error reading PDF: " \o read.msg>>)
                /\ UNCHANGED doc
           ELSE /\ doc' = [pdf_base64 |-> read.value.pdf_base64,
                           total_pages |-> read.value.total_pages,
                           was_truncated |-> read.value.was_truncated,
                           filename |-> get_pdf_filename(args.paper_path)]
                /\ stdout' = stdout \o
                      <<"Reading PDF...",
                        IF read.value.was_truncated
                        THEN "  PDF truncated: analyzing first "
                                 \o IntToStr(Val(args.max_pages)) \o " of "
                                 \o IntToStr(read.value.total_pages) \o " pages"
                        ELSE "  PDF loaded successfully ("
                                 \o IntToStr(read.value.total_pages) \o " pages)">>
                /\ pc' = "analyze"
                /\ UNCHANGED <<stderr, exit_code>>
    /\ UNCHANGED <<fs, env, args, config, llm_provider, result, calls, fn>>

\* the test with "too large" for "too long"
IsTooLargeError(error_msg) ==
    /\ StrContains(StrLower(error_msg), "too large")
    /\ StrContains(StrLower(error_msg), "token")

\* the test of the first `except`: a token-limit message
IsTokenLimitError(error_msg) ==
    /\ StrContains(StrLower(error_msg), "too long")
    /\ StrContains(StrLower(error_msg), "token")

\* the condition with `not` forgotten
ShouldRetryWhenTruncated(error_msg, was_truncated) ==
    IsTokenLimitError(error_msg) /\ was_truncated

\* the condition without the truncation test
ShouldRetryIgnoringTruncation(error_msg, was_truncated) ==
    IsTokenLimitError(error_msg)

\* the condition without the message test: any failure is retried
ShouldRetryAnyError(error_msg, was_truncated) == ~was_truncated

\* the condition under which the first failure is retried
ShouldRetry(error_msg, was_truncated) ==
    IsTokenLimitError(error_msg) /\ ~was_truncated

\* a line that drops the exception's message
AnalysisErrorGeneric(msg) == "Error during analysis: request failed"

\* the line both `except` branches print before sys.exit(1):
\* f"Error during analysis: {e}"
AnalysisError(msg) == "Error during analysis: " \o msg

\* the retry reading with the requested budget again
RetryBudgetRequested == args.max_pages

\* the budget of the retry's read: read_pdf_as_base64(paper_path, DEFAULT_MAX_PAGES)
RetryBudget == Some(DEFAULT_MAX_PAGES)

\* the first analyze_paper call and, when it raises, the choice between the
\* retry and the exit
FirstAttempt ==
    /\ pc = "analyze"
    /\ \E remote \in RemoteOutcomes :
        \E got \in {analyze_paper(llm_provider, remote)} :
            /\ calls' = Append(calls, RemoteCall(llm_provider, doc.pdf_base64,
                                                 doc.filename, remote))
            /\ IF ~got.raised
               THEN /\ result' = got.value
                    /\ stdout' = Append(stdout, "Analyzing paper (this may take a minute)...")
                    /\ pc' = "output"
                    /\ UNCHANGED <<stderr, exit_code>>
               ELSE IF ShouldRetry(got.msg, doc.was_truncated)
               THEN /\ stdout' = stdout \o <<"Analyzing paper (this may take a minute)...", "">>
                    /\ stderr' = Append(stderr,
                          "  Paper exceeds token limit. Auto-truncating to "
                              \o IntToStr(DEFAULT_MAX_PAGES) \o " pages...")
                    /\ pc' = "retry"
                    /\ UNCHANGED <<result, exit_code>>
               ELSE /\ stdout' = Append(stdout, "Analyzing paper (this may take a minute)...")
                    /\ ExitWithError(<<AnalysisError(got.msg)>>)
                    /\ UNCHANGED result
    /\ UNCHANGED <<fs, env, args, config, llm_provider, doc, fn>>

\* a retry that, on another token-limit failure, retries again
RetryAttemptAgain ==
    /\ pc = "retry"
    /\ \E read \in {read_pdf_as_base64(fs, args.paper_path, RetryBudget)} :
           IF read.raised
           THEN /\ ExitWithError(<<AnalysisError(read.msg)>>)
                /\ UNCHANGED <<doc, result, calls, stdout>>
           ELSE \E remote \in RemoteOutcomes :
                \E got \in {analyze_paper(llm_provider, remote)} :
                    /\ doc' = [doc EXCEPT !.pdf_base64 = read.value.pdf_base64,
                                          !.total_pages = read.value.total_pages]
                    /\ stdout' = Append(stdout,
                          "  Retrying with first " \o IntToStr(DEFAULT_MAX_PAGES) \o " of "
                              \o IntToStr(read.value.total_pages) \o " pages...")
                    /\ calls' = Append(calls, RemoteCall(llm_provider,
                                           read.value.pdf_base64, doc.filename, remote))
                    /\ IF got.raised /\ IsTokenLimitError(got.msg)
                       THEN /\ pc' = "retry"
                            /\ UNCHANGED <<result, stderr, exit_code>>
                       ELSE IF got.raised
                       THEN /\ ExitWithError(<<AnalysisError(got.msg)>>)
                            /\ UNCHANGED result
                       ELSE /\ result' = got.value
                            /\ pc' = "output"
                            /\ UNCHANGED <<stderr, exit_code>>
    /\ UNCHANGED <<fs, env, args, config, llm_provider, fn>>

\* a retry that goes back to the class's default model: it sets self.model
RetryAttemptDefaultModel ==
    /\ pc = "retry"
    /\ \E read \in {read_pdf_as_base64(fs, args.paper_path, RetryBudget)} :
           IF read.raised
           THEN /\ ExitWithError(<<AnalysisError(read.msg)>>)
                /\ UNCHANGED <<doc, result, calls, stdout, llm_provider>>
           ELSE \E remote \in RemoteOutcomes :
                LET fallback == NewProvider(llm_provider.cls, llm_provider.api_key, None)
                    got == analyze_paper(fallback, remote)
                IN  /\ llm_provider' = fallback
                    /\ doc' = [doc EXCEPT !.pdf_base64 = read.value.pdf_base64,
                                          !.total_pages = read.value.total_pages]
                    /\ stdout' = Append(stdout,
                          "  Retrying with first " \o IntToStr(DEFAULT_MAX_PAGES) \o " of "
                              \o IntToStr(read.value.total_pages) \o " pages...")
                    /\ calls' = Append(calls, RemoteCall(fallback,
                                           read.value.pdf_base64, doc.filename, remote))
                    /\ IF got.raised
                       THEN /\ ExitWithError(<<AnalysisError(got.msg)>>)
                            /\ UNCHANGED result
                       ELSE /\ result' = got.value
                            /\ pc' = "output"
                            /\ UNCHANGED <<stderr, exit_code>>
    /\ UNCHANGED <<fs, env, args, config, fn>>

\* a retry whose provider call never returns
RetryAttemptWaiting ==
    /\ pc = "retry"
    /\ UNCHANGED vars

\* the inner `try`: the second read, at DEFAULT_MAX_PAGES, and the second
\* analyze_paper call
RetryAttempt ==
    /\ pc = "retry"
    /\ \E read \in {read_pdf_as_base64(fs, args.paper_path, RetryBudget)} :
           IF read.raised
           THEN /\ ExitWithError(<<AnalysisError(read.msg)>>)
                /\ UNCHANGED <<doc, result, calls, stdout>>
           ELSE \E remote \in RemoteOutcomes :
                \E got \in {analyze_paper(llm_provider, remote)} :
                    /\ doc' = [doc EXCEPT !.pdf_base64 = read.value.pdf_base64,
                                          !.total_pages = read.value.total_pages]
                    /\ stdout' = Append(stdout,
                          "  Retrying with first " \o IntToStr(DEFAULT_MAX_PAGES) \o " of "
                              \o IntToStr(read.value.total_pages) \o " pages...")
                    /\ calls' = Append(calls, RemoteCall(llm_provider,
                                           read.value.pdf_base64, doc.filename, remote))
                    /\ IF got.raised
                       THEN /\ ExitWithError(<<AnalysisError(got.msg)>>)
                            /\ UNCHANGED result
                       ELSE /\ result' = got.value
                            /\ pc' = "output"
                            /\ UNCHANGED <<stderr, exit_code>>
    /\ UNCHANGED <<fs, env, args, config, llm_provider, fn>>

\* the output modes of the runs: --print, --output with a path, both, neither
OutputModes ==
    { [print_output |-> p, output |-> o] :
          p \in BOOLEAN, o \in {None, Some("out/summary.md")} }

\* the output mode of this run: the one its arguments name, any mode when
\* they name none
ArgsOutputModes ==
    IF "output" \in DOMAIN args
    THEN {[print_output |-> args.print_output, output |-> args.output]}
    ELSE OutputModes

\* a directory on disk
Directory == [kind |-> "dir", pages |-> <<>>, producer |-> "mkdir"]

\* open(output_path, "w") raises IsADirectoryError: the path is a directory
OpenRaises(files, output_path) ==
    PathExists(files, output_path) /\ files[output_path].kind = "dir"

\* a default output path that keeps the input's extension
DefaultOutputPathAppended(paper_path) == paper_path \o ".md"

\* str(Path(paper_path).with_suffix(".md"))
DefaultOutputPath(paper_path) == PathWithSuffix(paper_path, ".md")

\* an output that saves the file in either mode
OutputPrintAndSave ==
    /\ pc = "output"
    /\ \E mode \in ArgsOutputModes, date_str \in Dates :
        \E content \in {format_analysis(result.title, result.analysis,
                                        result.model_info, date_str)},
           output_path \in {OrElse(mode.output, DefaultOutputPath(args.paper_path))} :
            /\ fs' = [p \in DOMAIN fs \cup {output_path} |->
                         IF p = output_path THEN TextFile(content) ELSE fs[p]]
            /\ stdout' = stdout \o
                  (IF mode.print_output THEN <<"", content>>
                   ELSE <<"", "Analysis saved to: " \o output_path>>)
    /\ pc' = "done"
    /\ exit_code' = Some(0)
    /\ UNCHANGED <<env, args, config, llm_provider, doc, result, calls, stderr, fn>>

\* from the `print()` after the analysis to the end of cmd_analyze
Output ==
    /\ pc = "output"
    /\ \E mode \in ArgsOutputModes, date_str \in Dates :
        \E content \in {format_analysis(result.title, result.analysis,
                                        result.model_info, date_str)},
           output_path \in {OrElse(mode.output, DefaultOutputPath(args.paper_path))} :
            IF mode.print_output
            THEN /\ stdout' = stdout \o <<"", content>>
                 /\ pc' = "done"
                 /\ exit_code' = Some(0)
                 /\ UNCHANGED <<fs, stderr>>
            ELSE IF OpenRaises(fs, output_path)
            THEN \* open() raises in save_analysis, which nothing catches
                 /\ stdout' = Append(stdout, "")
                 /\ stderr' = Append(stderr, "IsADirectoryError: [Errno 21] Is a directory: '"
                                                 \o output_path \o "'")
                 /\ exit_code' = Some(1)
                 /\ pc' = "crashed"
                 /\ UNCHANGED fs
            ELSE /\ fs' = [p \in DOMAIN fs \cup {output_path} |->
                              IF p = output_path THEN TextFile(content) ELSE fs[p]]
                 /\ stdout' = stdout \o <<"", "Analysis saved to: " \o output_path>>
                 /\ pc' = "done"
                 /\ exit_code' = Some(0)
                 /\ UNCHANGED stderr
    /\ UNCHANGED <<env, args, config, llm_provider, doc, result, calls, fn>>

Next ==
    \/ CheckConfigured
    \/ ValidatePath
    \/ ResolveProvider
    \/ ReadPdf
    \/ FirstAttempt
    \/ RetryAttempt
    \/ Output

Spec == Init /\ [][Next]_vars

\* cmd_analyze runs to its end: a step that can be taken is taken, since the
\* function is sequential code whose reads and provider calls return or raise
\* the runs of Init with the page budgets at the edges of their range
InitLive ==
    \E cfg \in RunConfigs, paper \in Papers,
       max_pages \in {None, Some(MinBudget), Some(1), Some(DEFAULT_MAX_PAGES),
                      Some(MaxBudget)} :
        InitRun(cfg, paper, max_pages)

SpecLive == InitLive /\ [][Next]_vars /\ WF_vars(Next)

(* cmd_analyze with the output mode among the arguments: one configuration, *)
(* no --max-pages, and an output path that may be a directory.             *)

InitOutput ==
    \E paper \in Papers, mode \in OutputModes, blocked \in BOOLEAN :
        /\ fs = [p \in (IF IsNone(paper.file) THEN {} ELSE {paper.path})
                          \cup (IF blocked
                                THEN {OrElse(mode.output, DefaultOutputPath(paper.path))}
                                ELSE {}) |->
                    IF p = paper.path THEN Val(paper.file) ELSE Directory]
        /\ env = [NoEnv EXCEPT !["ANTHROPIC_API_KEY"] = "sk-ant-env"]
        /\ args = [paper_path |-> paper.path, provider |-> None, model |-> None,
                   max_pages |-> None, print_output |-> mode.print_output,
                   output |-> mode.output]
        /\ pc = "check_config"
        /\ config = EmptyDict
        /\ llm_provider = NoProvider
        /\ doc = NoDoc
        /\ result = NoResult
        /\ calls = <<>>
        /\ stdout = <<>>
        /\ stderr = <<>>
        /\ exit_code = None
        /\ fn = NoCall

SpecOutput == InitOutput /\ [][Next]_vars

---------------------------------------------------------------------------
(* The functions of pdf.py called directly, as the tests call them: a      *)
(* paper on disk, and one call with any budget.                            *)

InitPdf ==
    \E paper \in Papers :
        /\ fs = IF IsNone(paper.file) THEN NoFiles
                ELSE [p \in {paper.path} |-> Val(paper.file)]
        /\ env = NoEnv
        /\ args = [paper_path |-> paper.path, provider |-> None, model |-> None,
                   max_pages |-> None]
        /\ pc = "idle"
        /\ config = EmptyDict
        /\ llm_provider = NoProvider
        /\ doc = NoDoc
        /\ result = NoResult
        /\ calls = <<>>
        /\ stdout = <<>>
        /\ stderr = <<>>
        /\ exit_code = None
        /\ fn = NoCall

\* get_pdf_page_count(paper_path)
CallPageCount ==
    /\ pc = "idle"
    /\ fn = NoCall
    /\ fn' = [name |-> "get_pdf_page_count", max_pages |-> None,
              out |-> get_pdf_page_count(fs, args.paper_path)]
    /\ UNCHANGED <<fs, env, args, pc, config, llm_provider, doc, result, calls,
                   stdout, stderr, exit_code>>

\* truncate_pdf(paper_path, max_pages)
CallTruncatePdf ==
    /\ pc = "idle"
    /\ fn = NoCall
    /\ \E max_pages \in MinBudget..MaxBudget :
        fn' = [name |-> "truncate_pdf", max_pages |-> Some(max_pages),
               out |-> truncate_pdf(fs, args.paper_path, max_pages)]
    /\ UNCHANGED <<fs, env, args, pc, config, llm_provider, doc, result, calls,
                   stdout, stderr, exit_code>>

\* read_pdf_as_base64(paper_path, max_pages), and read_pdf_as_base64(paper_path)
CallReadPdf ==
    /\ pc = "idle"
    /\ fn = NoCall
    /\ \E max_pages \in Budgets :
        fn' = [name |-> "read_pdf_as_base64", max_pages |-> max_pages,
               out |-> read_pdf_as_base64(fs, args.paper_path, max_pages)]
    /\ UNCHANGED <<fs, env, args, pc, config, llm_provider, doc, result, calls,
                   stdout, stderr, exit_code>>

NextPdf ==
    \/ CallPageCount
    \/ CallTruncatePdf
    \/ CallReadPdf

SpecPdf == InitPdf /\ [][NextPdf]_vars

---------------------------------------------------------------------------
(* The provider classes and analyze_paper called directly, as the tests    *)
(* call them: a provider of any class is constructed with or without a     *)
(* model override, asked for its model info, and analyze_paper is invoked  *)
(* once with a document, a filename and a provider whose remote call       *)
(* replies or raises.                                                      *)

\* the model argument of a constructor: absent, empty, or a model id
ModelOverrides ==
    {None, Some(""), Some("gpt-5.2-turbo"), Some("claude-sonnet-4-20250514")}

\* the api_key argument of a constructor
ApiKeys == {"test-key", "my-secret-key"}

\* the most lines of a generated reply
MaxReplyLines == 3

\* the lines replies are made of: a marker line, an indented lower-case
\* marker line with a second colon, text, an empty line, and text that
\* mentions the marker
ReplyLines == {"TITLE: A", "  title: B: c ", "text", "", "The TITLE: of it"}

\* the replies of the mocked provider: those of the tests, and every text of
\* at most MaxReplyLines of the lines above
AnalyzerReplies ==
    Replies \cup
    { StrJoin("\n", ls) : ls \in UNION {[1..n -> ReplyLines] : n \in 1..MaxReplyLines} }

\* what the mocked provider's remote call gives
AnalyzerOutcomes ==
    {Returned(r) : r \in AnalyzerReplies} \cup {Raised(m) : m \in ErrorMessages}

\* the pdf_base64 and filename arguments of analyze_paper
Submissions ==
    { [pdf_base64 |-> b64encode(PdfBytes(1)), filename |-> "paper.pdf"],
      [pdf_base64 |-> b64encode(PdfBytes(2)), filename |-> "scan.PDF"] }

InitAnalyzer ==
    \E cls \in PROVIDERS, model \in ModelOverrides :
        /\ fs = NoFiles
        /\ env = NoEnv
        /\ args = [paper_path |-> "", provider |-> Some(cls), model |-> model,
                   max_pages |-> None]
        /\ pc = "idle"
        /\ config = EmptyDict
        /\ llm_provider = NoProvider
        /\ doc = NoDoc
        /\ result = NoResult
        /\ calls = <<>>
        /\ stdout = <<>>
        /\ stderr = <<>>
        /\ exit_code = None
        /\ fn = NoCall

\* provider_class(api_key=..., model=...)
ConstructProvider ==
    /\ pc = "idle"
    /\ llm_provider = NoProvider
    /\ \E api_key \in ApiKeys :
        llm_provider' = NewProvider(Val(args.provider), api_key, args.model)
    /\ fn' = [name |-> "__init__", max_pages |-> None, out |-> Returned(<<>>)]
    /\ UNCHANGED <<fs, env, args, pc, config, doc, result, calls, stdout, stderr,
                   exit_code>>

\* provider.get_model_info()
CallGetModelInfo ==
    /\ pc = "idle"
    /\ llm_provider # NoProvider
    /\ fn' = [name |-> "get_model_info", max_pages |-> None,
              out |-> Returned(get_model_info(llm_provider))]
    /\ UNCHANGED <<fs, env, args, pc, config, llm_provider, doc, result, calls,
                   stdout, stderr, exit_code>>

\* analyze_paper(provider, pdf_base64, filename): the remote call it makes
\* and what it gives
CallAnalyzePaper ==
    /\ pc = "idle"
    /\ llm_provider # NoProvider
    /\ calls = <<>>
    /\ \E given \in Submissions, remote \in AnalyzerOutcomes :
        /\ calls' = Append(calls, RemoteCall(llm_provider, given.pdf_base64,
                                             given.filename, remote))
        /\ fn' = [name |-> "analyze_paper", max_pages |-> None,
                  out |-> analyze_paper(llm_provider, remote), given |-> given]
    /\ UNCHANGED <<fs, env, args, pc, config, llm_provider, doc, result, stdout,
                   stderr, exit_code>>

NextAnalyzer ==
    \/ ConstructProvider
    \/ CallGetModelInfo
    \/ CallAnalyzePaper

SpecAnalyzer == InitAnalyzer /\ [][NextAnalyzer]_vars

---------------------------------------------------------------------------
(* cmd_analyze under every combination of the sources a setting may come   *)
(* from: for a provider, its key, its model and the default provider may   *)
(* each be set in the environment and in the configuration file, and the   *)
(* provider and the model may be given on the command line.                *)

\* the environment variables a user may set for the three providers: those
\* config.py reads, and the two the messages of cli.py name for OpenRouter
ConfigEnvVars == EnvVars \cup {"OPENROUTER_API_KEY", "FLUFF_CUTTER_OPENROUTER_MODEL"}

\* the environment that sets, for provider p, the chosen ones of its key,
\* its model and the default provider
EnvFor(p, key, model, provider) ==
    [v \in ConfigEnvVars |->
        IF key /\ v = StrUpper(p) \o "_API_KEY" THEN "sk-env-" \o p
        ELSE IF model /\ v = "FLUFF_CUTTER_" \o StrUpper(p) \o "_MODEL" THEN "env-model"
        ELSE IF provider /\ v = "FLUFF_CUTTER_PROVIDER" THEN p
        ELSE ""]

\* the configuration file that holds, for provider p, the chosen ones of
\* its key, its model and the default provider, and maybe the key of
\* another provider
ConfigFileFor(p, key, model, provider, other) ==
    LET companion == IF p = "anthropic" THEN "openai_api_key" ELSE "anthropic_api_key"
        keys == (IF key THEN {p \o "_api_key"} ELSE {})
                \cup (IF model THEN {p \o "_model"} ELSE {})
                \cup (IF provider THEN {"default_provider"} ELSE {})
                \cup (IF other THEN {companion} ELSE {})
    IN  [f \in {CONFIG_FILE} |->
            JsonFile([k \in keys |->
                         CASE k = p \o "_api_key" -> "sk-file-" \o p
                           [] k = p \o "_model" -> "file-model"
                           [] k = "default_provider" -> p
                           [] k = companion -> "sk-file-other"])]

\* the --model values of these runs
CliModels == {None, Some("cli-model")}

InitConfig ==
    \E p \in PROVIDERS, cli \in BOOLEAN, cli_model \in CliModels,
       ek \in BOOLEAN, em \in BOOLEAN, ep \in BOOLEAN,
       fk \in BOOLEAN, fm \in BOOLEAN, fp \in BOOLEAN, other \in BOOLEAN :
        /\ fs = [f \in {CONFIG_FILE, "papers/paper.pdf"} |->
                    IF f = CONFIG_FILE
                    THEN ConfigFileFor(p, fk, fm, fp, other)[CONFIG_FILE]
                    ELSE PdfBytes(1)]
        /\ env = EnvFor(p, ek, em, ep)
        /\ args = [paper_path |-> "papers/paper.pdf",
                   provider |-> IF cli THEN Some(p) ELSE None,
                   model |-> cli_model, max_pages |-> None]
        /\ pc = "check_config"
        /\ config = EmptyDict
        /\ llm_provider = NoProvider
        /\ doc = NoDoc
        /\ result = NoResult
        /\ calls = <<>>
        /\ stdout = <<>>
        /\ stderr = <<>>
        /\ exit_code = None
        /\ fn = NoCall

SpecConfig == InitConfig /\ [][Next]_vars

---------------------------------------------------------------------------
(* Downloads (download.py).  A URL is a text; urlparse splits it into the  *)
(* scheme, the network location, the path and what follows the path (the   *)
(* query and the fragment).  The URLs of the model carry no port and no    *)
(* user name, so the hostname is the network location in lower case.       *)

RECURSIVE StrFindFrom(_, _, _)
\* the least position >= i at which sub occurs in s, or 0
StrFindFrom(s, sub, i) ==
    IF i + Len(sub) - 1 > Len(s) THEN 0
    ELSE IF SubSeq(s, i, i + Len(sub) - 1) = sub THEN i
    ELSE StrFindFrom(s, sub, i + 1)

RECURSIVE StrReplace(_, _, _)
\* re.sub(old, new, s) for a literal pattern: every occurrence, left to right
StrReplace(s, old, new) ==
    LET k == StrFindFrom(s, old, 1)
    IN  IF k = 0 THEN s
        ELSE SubSeq(s, 1, k - 1) \o new
                 \o StrReplace(SubSeq(s, k + Len(old), Len(s)), old, new)

RECURSIVE StrRStripChar(_, _)
\* str.rstrip(c) for a one-character text c
StrRStripChar(s, c) ==
    IF Len(s) > 0 /\ CharAt(s, Len(s)) = c
    THEN StrRStripChar(SubSeq(s, 1, Len(s) - 1), c)
    ELSE s

RECURSIVE IndexOfAny(_, _, _)
\* the least position >= i of a character of the set chars in s, or Len(s) + 1
IndexOfAny(s, chars, i) ==
    IF i > Len(s) THEN Len(s) + 1
    ELSE IF CharAt(s, i) \in chars THEN i
    ELSE IndexOfAny(s, chars, i + 1)

\* urllib.parse.urlparse(url)
urlparse(url) ==
    LET k == StrFindFrom(url, "://", 1)
        start == IF k = 0 THEN 1 ELSE k + 3
        slash == IF k = 0 THEN start ELSE IndexOfAny(url, {"/", "?", "#"}, start)
        stop == IndexOfAny(url, {"?", "#"}, slash)
    IN  [scheme |-> IF k = 0 THEN "" ELSE StrLower(SubSeq(url, 1, k - 1)),
         netloc |-> SubSeq(url, start, slash - 1),
         path |-> SubSeq(url, slash, stop - 1),
         rest |-> SubSeq(url, stop, Len(url))]

\* ParseResult.hostname: the network location in lower case, None when empty
hostname(parsed) == IF parsed.netloc = "" THEN None ELSE Some(StrLower(parsed.netloc))

\* ParseResult.geturl()
geturl(parsed) ==
    (IF parsed.scheme = "" THEN "" ELSE parsed.scheme \o "://")
        \o parsed.netloc \o parsed.path \o parsed.rest

\* normalize_arxiv_url(url)
normalize_arxiv_url(url) ==
    LET parsed == urlparse(url)
    IN  IF ~IsNone(hostname(parsed)) /\ ~StrContains(Val(hostname(parsed)), "arxiv.org")
        THEN url
        ELSE geturl([parsed EXCEPT !.path = StrReplace(parsed.path, "/abs/", "/pdf/")])

\* _filename_from_url(url)
filename_from_url(url) ==
    LET path == StrRStripChar(urlparse(url).path, "/")
        name == IF path # "" THEN PathName(path) ELSE "downloaded_paper"
    IN  IF ~EndsWith(StrLower(name), ".pdf") THEN name \o ".pdf" ELSE name

\* Path.cwd()
Cwd == "/home/user"

\* the file write_bytes(content) leaves on disk
RawFile(content) == [kind |-> "raw", pages |-> <<>>, producer |-> "httpx", content |-> content]

\* no test of the output path: every call downloads
NeverSkip(files, output_path) == FALSE

\* download_pdf's test `output_path.exists()`
ShouldSkipDownload(files, output_path) == PathExists(files, output_path)

\* no validation of the response
IsPdfResponseAlways(response) == TRUE

\* download_pdf's validation: the content-type header holds application/pdf,
\* or the body starts with the five bytes %PDF-
IsPdfResponse(response) ==
    \/ StrContains(OrElse(response.content_type, ""), "application/pdf")
    \/ SubSeq(response.content, 1, Min(5, Len(response.content))) = "%PDF-"

\* download_pdf(url, output_dir), given what the server answers to a request:
\* the files afterwards, the requests made, and the path returned or the
\* exception raised
download_pdf(files, url, output_dir, response) ==
    LET normalized == normalize_arxiv_url(url)
        dir == IF IsNone(output_dir) THEN Cwd ELSE Val(output_dir)
        output_path == dir \o "/" \o filename_from_url(normalized)
        request == [url |-> normalized, response |-> response]
    IN  IF ShouldSkipDownload(files, output_path)
        THEN [files |-> files, requests |-> <<>>, out |-> Returned(output_path)]
        ELSE IF response.error # ""
        THEN [files |-> files, requests |-> <<request>>, out |-> Raised(response.error)]
        ELSE IF ~IsPdfResponse(response)
        THEN [files |-> files, requests |-> <<request>>,
              out |-> Raised("URL did not return a PDF (content-type: "
                                 \o OrElse(response.content_type, "")
                                 \o "). Please provide a direct link to a PDF file.")]
        ELSE [files |-> [f \in DOMAIN files \cup {output_path} |->
                            IF f = output_path THEN RawFile(response.content)
                            ELSE files[f]],
              requests |-> <<request>>, out |-> Returned(output_path)]

(* download_pdf called directly, as the tests call it: a URL, an output     *)
(* directory that may already hold a file, and calls that each get the     *)
(* server's answer of the moment.                                          *)

\* the most requests of a run
MaxRequests == 2

\* the URLs of the downloads
Urls ==
    { "https://arxiv.org/pdf/2411.19870",
      "https://arxiv.org/abs/2411.19870",
      "https://arxiv.org/abs/2411.19870v2",
      "https://arxiv.org/pdf/2411.19870/",
      "https://example.com/abs/paper.pdf",
      "https://example.com/paper.PDF",
      "https://example.com/paper.pdf?download=1",
      "https://example.com/not-a-pdf",
      "https://example.com" }

\* what the server may answer: an error that client.get or raise_for_status
\* raises, or a response with or without a content-type header
Responses ==
    { [error |-> "404 Not Found", content_type |-> None, content |-> ""] }
    \cup
    { [error |-> "", content_type |-> t, content |-> c] :
          t \in {Some("application/pdf"), Some("text/html"), None},
          c \in {"%PDF-1.4 fake pdf content", "<html>Not a PDF</html>", "%PDF"} }

\* the output directories: none given, or one that may hold a file already
OutputDirs == {None, Some("/tmp/papers")}
ExistingFiles ==
    { NoFiles,
      [f \in {"/tmp/papers/2411.19870.pdf"} |-> RawFile("%PDF-1.4 existing")] }

InitDownload ==
    \E url \in Urls, output_dir \in OutputDirs, files \in ExistingFiles :
        /\ fs = files
        /\ env = NoEnv
        /\ args = [paper_path |-> url, provider |-> None, model |-> None,
                   max_pages |-> None, output_dir |-> output_dir]
        /\ pc = "idle"
        /\ config = EmptyDict
        /\ llm_provider = NoProvider
        /\ doc = NoDoc
        /\ result = NoResult
        /\ calls = <<>>
        /\ stdout = <<>>
        /\ stderr = <<>>
        /\ exit_code = None
        /\ fn = NoCall

\* download_pdf(url, output_dir)
CallDownloadPdf ==
    /\ pc = "idle"
    /\ \E response \in Responses :
        LET got == download_pdf(fs, args.paper_path, args.output_dir, response)
        IN  /\ Len(calls) + Len(got.requests) <= MaxRequests
            /\ fs' = got.files
            /\ calls' = calls \o got.requests
            /\ fn' = [name |-> "download_pdf", max_pages |-> None, out |-> got.out]
    /\ UNCHANGED <<env, args, pc, config, llm_provider, doc, result, stdout, stderr,
                   exit_code>>

\* normalize_arxiv_url(url) and _filename_from_url(url)
CallUrlFunctions ==
    /\ pc = "idle"
    /\ fn = NoCall
    /\ \/ fn' = [name |-> "normalize_arxiv_url", max_pages |-> None,
                  out |-> Returned(normalize_arxiv_url(args.paper_path))]
       \/ fn' = [name |-> "_filename_from_url", max_pages |-> None,
                  out |-> Returned(filename_from_url(args.paper_path))]
    /\ UNCHANGED <<fs, env, args, pc, config, llm_provider, doc, result, calls,
                   stdout, stderr, exit_code>>

NextDownload ==
    \/ CallDownloadPdf
    \/ CallUrlFunctions

SpecDownload == InitDownload /\ [][NextDownload]_vars

---------------------------------------------------------------------------
(* cmd_init (cli.py): the interactive configuration.  The run's position   *)
(* is pc; config is the dictionary being built; the answers typed at the   *)
(* prompts are the inputs.                                                 *)

RECURSIVE Stars(_)
\* "*" * n
Stars(n) == IF n <= 0 THEN "" ELSE "*" \o Stars(n - 1)

\* _mask_key(key)
mask_key(key) ==
    IF Len(key) <= 12 THEN Stars(Len(key))
    ELSE SubSeq(key, 1, 4) \o "..." \o SubSeq(key, Len(key) - 3, Len(key))

\* prompt_with_default's full_prompt
full_prompt(prompt, default, password) ==
    IF default # "" /\ ~password THEN prompt \o " [" \o default \o "]: "
    ELSE IF default # "" THEN prompt \o " [" \o mask_key(default) \o "]: "
    ELSE prompt \o ": "

\* prompt_with_default(prompt, default), given the line typed
prompt_with_default(default, value) ==
    IF StrStrip(value) # "" THEN StrStrip(value) ELSE default

\* the order in which cmd_init goes through the providers
ProviderOrder == <<"openai", "anthropic", "openrouter">>

\* the elements of a sequence
Range(seq) == {seq[i] : i \in DOMAIN seq}

\* load_config() as cmd_init calls it first
existing_config == load_config(fs, env)

\* existing_config.get(key) or ""
ExistingOr(key) == OrElse(DictGet(existing_config, key), "")

\* every provider counts as available
available_providers_all(cfg) == ProviderOrder

\* cmd_init's available_providers: the providers whose key is in config
available_providers(cfg) ==
    SelectSeq(ProviderOrder, LAMBDA p : (p \o "_api_key") \in DOMAIN cfg)

\* a default that does not look at the available providers
default_choice_fixed(current_default, available) == DEFAULT_PROVIDER

\* cmd_init's default_choice: the current default when it is available,
\* else anthropic when available, else openai
default_choice(current_default, available) ==
    IF Truthy(current_default) /\ Val(current_default) \in Range(available)
    THEN Val(current_default)
    ELSE IF "anthropic" \in Range(available) THEN "anthropic" ELSE "openai"

\* the most answers the default-provider prompt rejects in a run
MaxRejections == 2

\* what may be typed at a key prompt, a provider prompt, a model prompt
KeyInputs == {"", " ", "sk-typed-key-0123"}
ProviderInputs == {"", "openai", "anthropic", "openrouter", "mistral", " openrouter "}
ModelInputs == {"", "custom-model"}

\* the configuration files cmd_init may find
InitFiles ==
    { NoFiles,
      OpenAIConfigFile,
      [p \in {CONFIG_FILE} |->
          JsonFile([k \in {"openrouter_api_key", "default_provider"} |->
                       IF k = "default_provider" THEN "openrouter"
                       ELSE "sk-file-openrouter"])],
      [p \in {CONFIG_FILE} |->
          JsonFile([k \in {"openai_api_key", "openrouter_api_key", "default_provider"} |->
                       CASE k = "default_provider" -> "mistral"
                         [] k = "openai_api_key" -> "sk-file-openai"
                         [] k = "openrouter_api_key" -> "sk-file-openrouter"])] }

\* the environments cmd_init may run in
InitEnvs ==
    { NoEnv,
      [NoEnv EXCEPT !["ANTHROPIC_API_KEY"] = "sk-ant-env"],
      [NoEnv EXCEPT !["FLUFF_CUTTER_PROVIDER"] = "openrouter"] }

InitCmdInit ==
    \E files \in InitFiles, environ \in InitEnvs :
        /\ fs = files
        /\ env = environ
        /\ args = [paper_path |-> "", provider |-> None, model |-> None,
                   max_pages |-> None]
        /\ pc = "init_start"
        /\ config = EmptyDict
        /\ llm_provider = NoProvider
        /\ doc = NoDoc
        /\ result = NoResult
        /\ calls = <<>>
        /\ stdout = <<>>
        /\ stderr = <<>>
        /\ exit_code = None
        /\ fn = NoCall

\* the lines of the "Current configuration:" block
StatusLines ==
    LET shown == SelectSeq(ProviderOrder, LAMBDA p : ExistingOr(p \o "_api_key") # "")
    IN  IF shown = <<>> THEN <<>>
        ELSE <<"Current configuration:">>
                 \o [i \in DOMAIN shown |->
                        "  " \o provider_name(shown[i]) \o " API Key: "
                             \o mask_key(ExistingOr(shown[i] \o "_api_key"))]
                 \o <<"">>

\* from the banner to the first prompt
ShowStatus ==
    /\ pc = "init_start"
    /\ stdout' = <<"Paper Fluff Cutter Configuration",
                       "========================================", "">>
                     \o StatusLines
                     \o <<"Enter your API keys (press Enter to keep existing or skip):", "">>
    /\ pc' = "init_keys"
    /\ UNCHANGED <<fs, env, args, config, llm_provider, doc, result, calls, stderr,
                   exit_code, fn>>

\* the three key prompts and the `if not config` exit
EnterKeys ==
    /\ pc = "init_keys"
    /\ \E typed \in [PROVIDERS -> KeyInputs] :
        \E entered \in {[p \in PROVIDERS |->
                            prompt_with_default(ExistingOr(p \o "_api_key"), typed[p])]} :
        \E given \in {SelectSeq(ProviderOrder, LAMBDA p : entered[p] # "")} :
            /\ config' = [k \in {p \o "_api_key" : p \in Range(given)} |->
                             entered[CHOOSE p \in PROVIDERS : p \o "_api_key" = k]]
            /\ IF given = <<>>
               THEN /\ stdout' = stdout \o
                          <<"", "No API keys provided. Configuration not saved.",
                            "You can set keys via environment variables instead:",
                            "  export OPENAI_API_KEY=sk-...",
                            "  export ANTHROPIC_API_KEY=sk-ant-...",
                            "  export OPENROUTER_API_KEY=sk-or-...">>
                    /\ pc' = "done"
                    /\ exit_code' = Some(0)
               ELSE /\ stdout' = stdout \o
                          [i \in DOMAIN given |->
                              "  " \o provider_name(given[i]) \o " API key "
                                  \o (IF Some(entered[given[i]])
                                          # DictGet(existing_config, given[i] \o "_api_key")
                                      THEN "updated" ELSE "kept")]
                          \o <<"">>
                    /\ pc' = "init_provider"
                    /\ UNCHANGED exit_code
    /\ UNCHANGED <<fs, env, args, llm_provider, doc, result, calls, stderr, fn>>

\* the choice between the prompt loop and available_providers[0]
ChooseProvider ==
    /\ pc = "init_provider"
    /\ \E available \in {available_providers(config)} :
        IF Len(available) > 1
        THEN /\ stdout' = Append(stdout, "Available providers: " \o StrJoin(", ", available))
             /\ pc' = "init_prompt"
             /\ UNCHANGED config
        ELSE /\ config' = DictSet(config, "default_provider", available[1])
             /\ stdout' = stdout \o
                   <<"", "Configure default models (press Enter for provider defaults):", "">>
             /\ pc' = "init_models"
    /\ UNCHANGED <<fs, env, args, llm_provider, doc, result, calls, stderr, exit_code, fn>>

\* the answers rejected so far
Rejections == Len(SelectSeq(stdout, LAMBDA line : StartsWith(line, "Please choose from: ")))

\* one turn of the `while True` loop: the prompt, and the answer's test
PromptProvider ==
    /\ pc = "init_prompt"
    /\ \E answer \in ProviderInputs :
        \E available \in {available_providers(config)} :
        \E offered \in {default_choice(DictGet(existing_config, "default_provider"),
                                       available)} :
        \E default_provider \in {prompt_with_default(offered, answer)} :
            IF default_provider \in Range(available)
            THEN /\ config' = DictSet(config, "default_provider", default_provider)
                 /\ stdout' = stdout \o
                       <<full_prompt("Default provider", offered, FALSE), "",
                         "Configure default models (press Enter for provider defaults):",
                         "">>
                 /\ pc' = "init_models"
            ELSE /\ Rejections < MaxRejections
                 /\ stdout' = stdout \o
                       <<full_prompt("Default provider", offered, FALSE),
                         "Please choose from: " \o StrJoin(", ", available)>>
                 /\ UNCHANGED <<config, pc>>
    /\ UNCHANGED <<fs, env, args, llm_provider, doc, result, calls, stderr, exit_code, fn>>

\* save_config(config): the file CONFIG_FILE holds afterwards
save_config(files, cfg) ==
    [p \in DOMAIN files \cup {CONFIG_FILE} |->
        IF p = CONFIG_FILE THEN JsonFile(cfg) ELSE files[p]]

\* the model prompts, save_config and the closing lines
ConfigureModels ==
    /\ pc = "init_models"
    /\ \E typed \in [PROVIDERS -> ModelInputs] :
        \E asked \in {available_providers(config)} :
        \E current \in {[p \in PROVIDERS |->
                            DictGetOr(existing_config, p \o "_model", default_model(p))]} :
        \E chosen \in {[p \in PROVIDERS |-> prompt_with_default(current[p], typed[p])]} :
        \E kept \in {{p \in Range(asked) : chosen[p] # default_model(p)}} :
            /\ (\A p \in PROVIDERS \ Range(asked) : typed[p] = "")
            /\ config' = [k \in DOMAIN config \cup {p \o "_model" : p \in kept} |->
                             IF k \in DOMAIN config THEN config[k]
                             ELSE chosen[CHOOSE p \in kept : p \o "_model" = k]]
            /\ fs' = save_config(fs, config')
            /\ stdout' = stdout
                   \o [j \in 1..(2 * Len(asked)) |->
                          LET p == asked[(j + 1) \div 2]
                          IN  IF j % 2 = 1
                              THEN full_prompt(provider_name(p) \o " model", current[p], FALSE)
                              ELSE IF p \in kept
                              THEN "  " \o provider_name(p) \o " model set to: " \o chosen[p]
                              ELSE "  Using default: " \o default_model(p)]
                   \o <<"", "Configuration saved to: " \o CONFIG_FILE,
                        "Default provider: " \o config["default_provider"], "",
                        "You're ready to analyze papers!",
                        "  fluff-cutter analyze <paper.pdf>">>
    /\ pc' = "done"
    /\ exit_code' = Some(0)
    /\ UNCHANGED <<env, args, llm_provider, doc, result, calls, stderr, fn>>

NextCmdInit ==
    \/ ShowStatus
    \/ EnterKeys
    \/ ChooseProvider
    \/ PromptProvider
    \/ ConfigureModels

SpecCmdInit == InitCmdInit /\ [][NextCmdInit]_vars

---------------------------------------------------------------------------
(* Properties.                                                             *)

\* the provider call made last
LastCall == calls[Len(calls)]

\* the pages of the paper on disk
PaperPages == fs[args.paper_path].pages

\* the provider error messages that the first `except` takes for token-limit
\* messages
TokenLimitMessages == {m \in ErrorMessages : IsTokenLimitError(m)}

\* call i raised a token-limit message
SizeFailure(i) == calls[i].raised /\ calls[i].msg \in TokenLimitMessages

\* C1: in a run whose first attempt was not truncated and in which every
\* provider call so far failed with a token-limit message, there are at most
\* two calls; after the first the run has not ended and the retry is next;
\* after the second the run has ended in failure with exit status 1.
C1_SizeFailuresCallTwice ==
    (/\ Len(calls) >= 1
     /\ ~doc.was_truncated
     /\ \A i \in 1..Len(calls) : SizeFailure(i))
    => /\ Len(calls) <= 2
       /\ (Len(calls) = 1 => pc = "retry" /\ IsNone(exit_code))
       /\ (Len(calls) = 2 => pc = "failed" /\ exit_code = Some(1))

\* C1 witness: both calls failed with a token-limit message and the run failed
C1_Witness ==
    /\ Len(calls) = 2
    /\ ~doc.was_truncated
    /\ \A i \in 1..2 : SizeFailure(i)
    /\ pc = "failed"

\* C2: in every state of every run, at most two provider calls have been made.
C2_AtMostTwoCalls == Len(calls) <= 2

\* C2 witness: a run that made its second call
C2_Witness == Len(calls) = 2 /\ SizeFailure(2)

\* C3: when the first call fails with a message that is no token-limit
\* message, that call is the only one, the run has ended in failure with exit
\* status 1, the document was not read again, and the only line on standard
\* error is that failure's.
C3_OtherFailureNoRetry ==
    (/\ Len(calls) >= 1
     /\ calls[1].raised
     /\ ~SizeFailure(1))
    => /\ Len(calls) = 1
       /\ pc = "failed"
       /\ exit_code = Some(1)
       /\ doc.pdf_base64 = calls[1].pdf_base64
       /\ stderr = <<AnalysisError(calls[1].msg)>>

\* C3 witness: an untruncated first attempt failed with a connection error
C3_Witness ==
    /\ Len(calls) = 1
    /\ calls[1].raised
    /\ calls[1].msg = "Connection error."
    /\ ~doc.was_truncated
    /\ pc = "failed"

\* C4: when the first attempt's document was truncated and the first call
\* fails with a token-limit message, no second call is made and the run has
\* ended in failure.
C4_TruncatedNoRetry ==
    (/\ Len(calls) >= 1
     /\ doc.was_truncated
     /\ SizeFailure(1))
    => /\ Len(calls) = 1
       /\ pc = "failed"
       /\ exit_code = Some(1)

\* C4 witness: a truncated first attempt failed with a token-limit message
C4_Witness ==
    /\ Len(calls) = 1
    /\ doc.was_truncated
    /\ SizeFailure(1)
    /\ pc = "failed"

\* C5: when the requested page budget is at least 1 and below
\* DEFAULT_MAX_PAGES, the paper has at least one page and the first call fails
\* with a token-limit message, no second call is made and the run has ended in
\* failure, whether or not the document was truncated.
C5_SmallBudgetNoRetry ==
    (/\ Len(calls) >= 1
     /\ ~IsNone(args.max_pages)
     /\ Val(args.max_pages) >= 1
     /\ Val(args.max_pages) < DEFAULT_MAX_PAGES
     /\ doc.total_pages >= 1
     /\ SizeFailure(1))
    => /\ Len(calls) = 1
       /\ pc = "failed"

\* C6: the second call, when there is one, is given the first
\* min(DEFAULT_MAX_PAGES, P) pages of the P-page paper, in order, and the
\* provider, the filename and the prompt of the first call.
C6_RetrySendsFallbackPages ==
    Len(calls) = 2
    => /\ b64decode(calls[2].pdf_base64).pages
              = SubSeq(PaperPages, 1, Min(DEFAULT_MAX_PAGES, Len(PaperPages)))
       /\ calls[2].provider = calls[1].provider
       /\ calls[2].filename = calls[1].filename
       /\ calls[2].prompt = calls[1].prompt

\* C6 witness: a retry of a paper of more than DEFAULT_MAX_PAGES pages
C6_Witness ==
    /\ Len(calls) = 2
    /\ Len(PaperPages) > DEFAULT_MAX_PAGES
    /\ Len(b64decode(calls[2].pdf_base64).pages) = DEFAULT_MAX_PAGES

\* C7: when a run has ended in failure after a provider call, the last line
\* on standard error ends with the message of the last call's exception.
C7_FailureKeepsMessage ==
    (pc = "failed" /\ Len(calls) >= 1)
    => /\ LastCall.raised
       /\ Len(stderr) >= 1
       /\ EndsWith(stderr[Len(stderr)], LastCall.msg)

\* C7 witness: the retry failed with another message than the first call
C7_Witness ==
    /\ pc = "failed"
    /\ Len(calls) = 2
    /\ calls[2].msg # calls[1].msg
    /\ EndsWith(stderr[Len(stderr)], calls[2].msg)

\* C8: a run is at the output step or has ended well only if its last
\* provider call returned a reply, and the result is the one analyze_paper
\* builds from that reply; and when the last call raised and no retry is
\* pending, the run has ended in failure with a line on standard error and
\* exit status 1.
C8_NoFailureSwallowed ==
    /\ pc \in {"output", "done"}
       => /\ Len(calls) >= 1
          /\ ~LastCall.raised
          /\ result = [title |-> ParseReply(LastCall.reply).title,
                       analysis |-> ParseReply(LastCall.reply).analysis,
                       model_info |-> get_model_info(LastCall.provider)]
    /\ (Len(calls) >= 1 /\ LastCall.raised /\ pc # "retry")
       => /\ pc = "failed"
          /\ exit_code = Some(1)
          /\ Len(stderr) >= 1
    /\ pc = "done" => exit_code = Some(0)

\* C8 witness: a run that ended well after its first call failed
C8_Witness ==
    /\ pc = "done"
    /\ Len(calls) = 2
    /\ calls[1].raised
    /\ ~calls[2].raised

\* C9: truncate_pdf of a P-page document with budget B returns a document of
\* the first min(B, P) pages of the original, in order from page 1: B pages
\* when 1 <= B < P, P pages when B >= P.
C9_TruncateFirstPages ==
    (fn.name = "truncate_pdf" /\ ~fn.out.raised)
    => LET B == Val(fn.max_pages)
           P == Len(PaperPages)
           got == fn.out.value.pages
       IN  /\ got = SubSeq(PaperPages, 1, Min(B, P))
           /\ \A i \in 1..Len(got) : got[i] = PageLabel(i)
           /\ (1 <= B /\ B < P) => Len(got) = B
           /\ B >= P => Len(got) = P

\* C9 witness: a truncation that drops pages
C9_Witness ==
    /\ fn.name = "truncate_pdf"
    /\ ~fn.out.raised
    /\ Val(fn.max_pages) >= 1
    /\ Val(fn.max_pages) < Len(PaperPages)
    /\ Len(fn.out.value.pages) = Val(fn.max_pages)

\* C10: read_pdf_as_base64 of a P-page document returns was_truncated equal
\* to (P > B) when a budget B is supplied, and FALSE when none is.
C10_TruncatedFlagExact ==
    (fn.name = "read_pdf_as_base64" /\ ~fn.out.raised)
    => LET P == Len(PaperPages)
       IN  IF IsNone(fn.max_pages)
           THEN fn.out.value.was_truncated = FALSE
           ELSE fn.out.value.was_truncated = (P > Val(fn.max_pages))

\* C10 witness: a read at a budget equal to the page count, not truncated
C10_Witness ==
    /\ fn.name = "read_pdf_as_base64"
    /\ ~fn.out.raised
    /\ ~IsNone(fn.max_pages)
    /\ Val(fn.max_pages) = Len(PaperPages)
    /\ Val(fn.max_pages) >= 1
    /\ fn.out.value.was_truncated = FALSE

\* C11: read_pdf_as_base64 of a P-page document reports total_pages = P,
\* truncated or not; the document it delivers, decoded from base64, has
\* min(B, P) pages when a budget B (a page count, so B >= 0) is supplied, and
\* is the file on disk, byte for byte, when no budget is supplied or the
\* budget is not exceeded.
C11_TotalPagesAndDeliveredPages ==
    (fn.name = "read_pdf_as_base64" /\ ~fn.out.raised)
    => LET P == Len(PaperPages)
           delivered == b64decode(fn.out.value.pdf_base64)
       IN  /\ fn.out.value.total_pages = P
           /\ (~IsNone(fn.max_pages) /\ Val(fn.max_pages) >= 0)
              => Len(delivered.pages) = Min(Val(fn.max_pages), P)
           /\ (IsNone(fn.max_pages) \/ P <= Val(fn.max_pages))
              => delivered = fs[args.paper_path]
           /\ ~fn.out.value.was_truncated => delivered = fs[args.paper_path]

\* C11 witness: a truncated read still reports the original page count, and
\* the paper has more pages than the budget delivers
C11_Witness ==
    /\ fn.name = "read_pdf_as_base64"
    /\ ~fn.out.raised
    /\ fn.out.value.was_truncated
    /\ Val(fn.max_pages) = 3
    /\ fn.out.value.total_pages = 5
    /\ Len(b64decode(fn.out.value.pdf_base64).pages) = 3

\* C12: in every analyze run, a document is truncated only under a page
\* budget of at least 1, and every document sent to a provider for a paper
\* of at least one page has at least one page.
C12_BudgetAtLeastOne ==
    /\ (doc.total_pages >= 1 /\ doc.was_truncated)
       => (~IsNone(args.max_pages) /\ Val(args.max_pages) >= 1)
    /\ \A i \in 1..Len(calls) :
           Len(PaperPages) >= 1 => Len(b64decode(calls[i].pdf_base64).pages) >= 1

\* the lines of a reply, and the positions of those of them whose trimmed,
\* case-insensitive form starts with "TITLE:"
ReplyLinesOf(reply) == StrSplit(reply, "\n")
TitleMarkers(lines) ==
    {i \in 1..Len(lines) : StartsWith(StrLower(StrStrip(lines[i])), "title:")}

\* an analyze_paper invocation that returned
Analyzed == fn.name = "analyze_paper" /\ ~fn.out.raised

\* C13: when the reply has a line whose trimmed, case-insensitive form
\* starts with "TITLE:", analyze_paper takes the first such line: the title is
\* the text after that line's first colon, trimmed, and the body is the lines
\* strictly after it, rejoined and trimmed, so no earlier line is in the body.
C13_TitleFromFirstMarker ==
    Analyzed
    => LET lines == ReplyLinesOf(calls[1].reply)
           at == TitleMarkers(lines)
       IN  at # {}
           => LET first == CHOOSE i \in at : \A j \in at : i <= j
                  colon == FirstIndex(lines[first], ":")
              IN  /\ fn.out.value.title
                         = StrStrip(SubSeq(lines[first], colon + 1, Len(lines[first])))
                  /\ fn.out.value.analysis
                         = StrStrip(StrJoin("\n", SubSeq(lines, first + 1, Len(lines))))

\* C13 witness: a reply with text before its first marker line and a second
\* marker line after it
C13_Witness ==
    /\ Analyzed
    /\ calls[1].reply = "text\n  title: B: c \nTITLE: A"
    /\ fn.out.value.title = "B: c"
    /\ fn.out.value.analysis = "TITLE: A"

\* C14: when the reply has no line whose trimmed, case-insensitive form
\* starts with "TITLE:", analyze_paper gives the title "Unknown Title" and a
\* body equal to the reply trimmed of leading and trailing whitespace.
C14_NoMarkerTrimmedBody ==
    (Analyzed /\ TitleMarkers(ReplyLinesOf(calls[1].reply)) = {})
    => /\ fn.out.value.title = "Unknown Title"
       /\ fn.out.value.analysis = StrStrip(calls[1].reply)

\* C15: when the reply has a title line, the body analyze_paper gives does
\* not contain the text "TITLE:".
C15_NoMarkerInBody ==
    (Analyzed /\ TitleMarkers(ReplyLinesOf(calls[1].reply)) # {})
    => ~StrContains(fn.out.value.analysis, "TITLE:")

\* C16: an analyze_paper invocation makes exactly one remote call, with the
\* pdf_base64 and filename it was given and ANALYSIS_PROMPT, on the provider
\* it was given; it returns when that call returns and raises that call's
\* exception when it raises, without a second call.
C16_OneRemoteCall ==
    fn.name = "analyze_paper"
    => /\ Len(calls) = 1
       /\ calls[1].pdf_base64 = fn.given.pdf_base64
       /\ calls[1].filename = fn.given.filename
       /\ calls[1].prompt = ANALYSIS_PROMPT
       /\ calls[1].provider = llm_provider
       /\ fn.out.raised = calls[1].raised
       /\ fn.out.raised => fn.out.msg = calls[1].msg

\* C16 witness: an invocation whose only remote call raised
C16_Witness ==
    /\ fn.name = "analyze_paper"
    /\ fn.out.raised
    /\ fn.out.msg = "Connection error."
    /\ Len(calls) = 1
    /\ calls[1].filename = "scan.PDF"
    /\ calls[1].pdf_base64 = b64encode(PdfBytes(2))

\* C19: a provider's model is the model given at construction when one is
\* given (a non-empty text), else its class's default: gpt-5.2 for OpenAI,
\* claude-opus-4-5 for Anthropic, anthropic/claude-sonnet-4-5 for OpenRouter;
\* get_model_info gives the class's display name, " (", the model and ")".
C19_ModelAndModelInfo ==
    llm_provider # NoProvider
    => LET cls == Val(args.provider)
           documented == CASE cls = "openai" -> <<"OpenAI", "gpt-5.2">>
                           [] cls = "anthropic" -> <<"Anthropic", "claude-opus-4-5">>
                           [] cls = "openrouter" ->
                                  <<"OpenRouter", "anthropic/claude-sonnet-4-5">>
       IN  /\ llm_provider.model = IF args.model \in {None, Some("")}
                                    THEN documented[2] ELSE Val(args.model)
           /\ fn.name = "get_model_info"
              => fn.out.value = documented[1] \o " (" \o llm_provider.model \o ")"

\* C19 witness: the model info of an OpenRouter provider constructed with a
\* model override
C19_Witness ==
    /\ fn.name = "get_model_info"
    /\ args.provider = Some("openrouter")
    /\ args.model = Some("gpt-5.2-turbo")
    /\ fn.out.value = "OpenRouter (gpt-5.2-turbo)"

\* C18: once a provider is constructed, no step of a run changes its api_key
\* or its model: not the model info printed after construction, not the
\* first analyze_paper call, not the retry; and every remote call is made on
\* the provider as constructed.
C18_ProviderUnchanged ==
    /\ [][llm_provider # NoProvider => llm_provider' = llm_provider]_vars
    /\ [](\A i \in 1..Len(calls) : calls[i].provider = llm_provider)

\* C18 witness: a run of two calls on a provider constructed with the model
\* of the configuration file
C18_Witness ==
    /\ Len(calls) = 2
    /\ llm_provider = NewProvider("openai", "sk-file-openai", Some("gpt-4o"))
    /\ calls[1].provider = llm_provider
    /\ calls[2].provider = llm_provider

\* the first non-empty text of a list of texts, or ""
FirstGiven(texts) ==
    LET at == {i \in 1..Len(texts) : texts[i] # ""}
    IN  IF at = {} THEN "" ELSE texts[CHOOSE i \in at : \A j \in at : i <= j]

\* the text of an optional text, "" for None
TextOf(o) == IF IsNone(o) THEN "" ELSE Val(o)

\* the value under key of the configuration file on disk, or ""
FileValue(key) == DictGetOr(fs[CONFIG_FILE].content, key, "")

\* C20: the provider an analyze run constructs is chosen by --provider, else
\* FLUFF_CUTTER_PROVIDER, else the file's default_provider, else "anthropic";
\* its key is <PROVIDER>_API_KEY of the environment, else the file's; its
\* model is --model, else FLUFF_CUTTER_<PROVIDER>_MODEL, else the file's, else
\* the class's default: for each of the three providers.
C20_SettingPrecedence ==
    llm_provider # NoProvider
    => LET name == FirstGiven(<<TextOf(args.provider), env["FLUFF_CUTTER_PROVIDER"],
                                FileValue("default_provider"), "anthropic">>)
           key == FirstGiven(<<env[StrUpper(name) \o "_API_KEY"],
                               FileValue(name \o "_api_key")>>)
           model == FirstGiven(<<TextOf(args.model),
                                 env["FLUFF_CUTTER_" \o StrUpper(name) \o "_MODEL"],
                                 FileValue(name \o "_model"),
                                 CASE name = "openai" -> "gpt-5.2"
                                   [] name = "anthropic" -> "claude-opus-4-5"
                                   [] name = "openrouter" -> "anthropic/claude-sonnet-4-5">>)
       IN  llm_provider = [cls |-> name, api_key |-> key, model |-> model]

\* the provider a run selects and the API key available for it in the
\* environment or the configuration file, "" when there is none
SelectedProvider ==
    FirstGiven(<<TextOf(args.provider), env["FLUFF_CUTTER_PROVIDER"],
                 FileValue("default_provider"), "anthropic">>)
SelectedKey ==
    FirstGiven(<<env[StrUpper(SelectedProvider) \o "_API_KEY"],
                 FileValue(SelectedProvider \o "_api_key")>>)

\* C21: every provider call of an analyze run is made with a non-empty API
\* key, the one resolved for the selected provider; and a run for whose
\* selected provider no key is available makes no provider call and, once
\* past the resolution, has ended in failure with exit status 1.
C21_NoCallWithoutKey ==
    /\ \A i \in 1..Len(calls) :
           /\ calls[i].provider.cls = SelectedProvider
           /\ calls[i].provider.api_key # ""
           /\ Some(calls[i].provider.api_key) = DictGet(config, SelectedProvider \o "_api_key")
    /\ SelectedKey = ""
       => /\ calls = <<>>
          /\ llm_provider = NoProvider
          /\ pc \notin {"check_config", "check_path", "resolve"}
             => pc = "failed" /\ exit_code = Some(1)

\* C21 witness: a run that has a key for another provider only and ended at
\* the resolution, before any call
C21_Witness ==
    /\ SelectedProvider = "openai"
    /\ SelectedKey = ""
    /\ FileValue("anthropic_api_key") # ""
    /\ pc = "failed"
    /\ calls = <<>>
    /\ stderr[1] = "Error: No API key configured for openai."

\* the paper of a run is missing; it is on disk but is no PDF by its name or
\* by its bytes
PaperMissing == args.paper_path \notin DOMAIN fs
PaperUnreadable ==
    /\ ~PaperMissing
    /\ \/ ~EndsWith(StrLower(args.paper_path), ".pdf")
       \/ fs[args.paper_path].kind # "pdf"

\* C22: a run whose paper is missing, is not named .pdf or cannot be parsed
\* makes no provider call, reads nothing and never reaches the analysis or
\* the retry; when it ends after its configuration was accepted, it has
\* failed with exit status 1 and the one line on standard error is that
\* error's message.
C22_UnreadablePaperFails ==
    (PaperMissing \/ PaperUnreadable)
    => /\ calls = <<>>
       /\ doc = NoDoc
       /\ pc \in {"check_config", "check_path", "resolve", "read", "failed"}
       /\ (PaperMissing /\ pc = "failed" /\ is_configured(fs, env))
          => /\ exit_code = Some(1)
             /\ stderr = <<"Error: File not found: " \o args.paper_path>>
       /\ (PaperUnreadable /\ pc = "failed" /\ llm_provider # NoProvider)
          => /\ exit_code = Some(1)
             /\ stderr = << "Error reading PDF: " \o
                              (IF ~EndsWith(StrLower(args.paper_path), ".pdf")
                               THEN "File is not a PDF: " \o args.paper_path
                               ELSE "EOF marker not found") >>

\* C22 witness: a run on bytes that are no PDF failed at the read
C22_Witness ==
    /\ args.paper_path = "papers/broken.pdf"
    /\ pc = "failed"
    /\ llm_provider # NoProvider
    /\ calls = <<>>
    /\ stderr = <<"Error reading PDF: EOF marker not found">>

\* an API key of some supported provider is available in the environment or
\* the configuration file
AnyKeyAvailable ==
    \E p \in PROVIDERS :
        FirstGiven(<<env[StrUpper(p) \o "_API_KEY"], FileValue(p \o "_api_key")>>) # ""

\* C23: once a run has asked is_configured, it has been rejected with
\* "No API keys configured" exactly when no key of openai, anthropic or
\* openrouter is available in the environment or the configuration file.
C23_RejectedIffNoKey ==
    pc # "check_config"
    => ((pc = "failed" /\ stderr[1] = "Error: No API keys configured.")
        <=> ~AnyKeyAvailable)

\* the error messages holding, in any letter case, both of two texts, and
\* those holding none of the words for size, length or token limits
MessagesWith(a, b) ==
    {m \in ErrorMessages : StrContains(StrLower(m), a) /\ StrContains(StrLower(m), b)}
TooLargeTokenMessages == MessagesWith("too large", "token")
TooLongTokenMessages == MessagesWith("too long", "token")
PlainMessages ==
    {m \in ErrorMessages : /\ ~StrContains(StrLower(m), "too large")
                           /\ ~StrContains(StrLower(m), "too long")
                           /\ ~StrContains(StrLower(m), "token")}

\* the first call failed with message m and the retry was taken: it is
\* pending or was made
RetryTaken == pc = "retry" \/ Len(calls) = 2

\* C24 as claimed: a first failure of an untruncated attempt whose message
\* holds "too large" and "token" is retried, and one whose message holds no
\* size, length or token word is not.
C24_TooLargeRetried ==
    (Len(calls) >= 1 /\ calls[1].raised)
    => /\ (calls[1].msg \in TooLargeTokenMessages /\ ~doc.was_truncated) => RetryTaken
       /\ calls[1].msg \in PlainMessages => ~RetryTaken

\* C24 amended: a first failure of an untruncated attempt is retried exactly
\* when its message holds, in any letter case, both "too long" and "token";
\* so one whose message holds no size, length or token word is not.
C24_TooLongRetried ==
    (Len(calls) >= 1 /\ calls[1].raised)
    => /\ ~doc.was_truncated => (RetryTaken <=> calls[1].msg \in TooLongTokenMessages)
       /\ calls[1].msg \in PlainMessages => ~RetryTaken

\* C24 witness: an upper-case "too long" message with "TOKENS" was retried,
\* and the retry was made
C24_Witness ==
    /\ Len(calls) = 2
    /\ calls[1].msg = "Prompt Is Too Long: 9 TOKENS"
    /\ ~doc.was_truncated

\* the path download_pdf saves a run's URL under
OutputPath ==
    (IF IsNone(args.output_dir) THEN "/home/user" ELSE Val(args.output_dir))
        \o "/" \o filename_from_url(normalize_arxiv_url(args.paper_path))

\* a response that passes for a PDF by its header or by its first bytes
PassesForPdf(response) ==
    /\ response.error = ""
    /\ \/ (~IsNone(response.content_type)
           /\ StrContains(Val(response.content_type), "application/pdf"))
       \/ StartsWith(response.content, "%PDF-")

\* C25: a step of download_pdf changes the files only by creating the
\* output file with the body of a response that passed for a PDF, and then
\* returns its path; a step whose request failed or whose response passed
\* neither test raises and leaves the files as they were.
C25_WriteOnlyValidated ==
    [][ /\ fs' # fs
           => /\ Len(calls') = Len(calls) + 1
              /\ PassesForPdf(calls'[Len(calls')].response)
              /\ OutputPath \notin DOMAIN fs
              /\ DOMAIN fs' = DOMAIN fs \cup {OutputPath}
              /\ fs'[OutputPath].content = calls'[Len(calls')].response.content
              /\ \A f \in DOMAIN fs : fs'[f] = fs[f]
              /\ fn'.out = Returned(OutputPath)
        /\ (Len(calls') = Len(calls) + 1 /\ ~PassesForPdf(calls'[Len(calls')].response))
           => /\ fs' = fs
              /\ fn'.out.raised
      ]_vars

\* C25 witness: a download accepted by its first bytes alone was saved
C25_Witness ==
    /\ args.paper_path = "https://example.com/paper.pdf?download=1"
    /\ Len(calls) = 2
    /\ calls[1].response.content_type = Some("text/html")
    /\ calls[1].response.content = "%PDF"
    /\ calls[2].response.content_type = None
    /\ fn.out = Returned("/home/user/paper.pdf")
    /\ fs = [f \in {"/home/user/paper.pdf"} |-> RawFile("%PDF-1.4 fake pdf content")]

\* C26: when the output file of a run's URL exists, a call of download_pdf
\* makes no request, leaves every file as it was and returns that file's
\* path; so no request follows a call that saved the file.
C26_ExistingFileSkipsRequest ==
    [][ (OutputPath \in DOMAIN fs /\ fn'.name = "download_pdf")
        => (calls' = calls /\ fs' = fs /\ fn'.out = Returned(OutputPath)) ]_vars

\* C26 witness: after a failed request and a request that saved the file,
\* a further call returned the path of the arxiv-normalized URL's file
C26_Witness ==
    /\ args.paper_path = "https://arxiv.org/abs/2411.19870v2"
    /\ Len(calls) = 2
    /\ calls[1].response.error = "404 Not Found"
    /\ calls[2].url = "https://arxiv.org/pdf/2411.19870v2"
    /\ "/tmp/papers/2411.19870v2.pdf" \in DOMAIN fs
    /\ fn.out = Returned("/tmp/papers/2411.19870v2.pdf")

\* the document format_analysis renders of the run's result
Rendered == {format_analysis(result.title, result.analysis, result.model_info, d) : d \in Dates}

\* a rendered analysis is among the lines printed
AnalysisPrinted == \E i \in DOMAIN stdout : StartsWith(stdout[i], "# Paper Analysis: ")

\* the files that hold a saved analysis
AnalysisFiles == {p \in DOMAIN fs : fs[p].kind = "text"}

\* the path the analysis goes to: --output, or the input with .md for its extension
ExpectedOutputPath ==
    IF IsNone(args.output)
    THEN SubSeq(args.paper_path, 1, LastIndex(args.paper_path, ".") - 1) \o ".md"
    ELSE Val(args.output)

\* C27: a run that ended well either printed the rendered result and saved
\* no file, or saved it to the one output path (--output, by default the
\* input path with .md for its extension) and printed no analysis; a
\* run that has not ended well printed no analysis and saved no file.
C27_PrintOrSave ==
    /\ pc = "done"
       => IF args.print_output
          THEN /\ stdout[Len(stdout)] \in Rendered
               /\ AnalysisFiles = {}
          ELSE /\ ~AnalysisPrinted
               /\ AnalysisFiles = {ExpectedOutputPath}
               /\ fs[ExpectedOutputPath].content \in Rendered
    /\ pc # "done" => (~AnalysisPrinted /\ AnalysisFiles = {})

\* C27 witness: a run whose retry succeeded saved the analysis next to the
\* paper although --print was not given and --output neither
C27_Witness ==
    /\ pc = "done"
    /\ Len(calls) = 2
    /\ ~args.print_output
    /\ IsNone(args.output)
    /\ args.paper_path = "papers/paper.pdf"
    /\ "papers/paper.md" \in AnalysisFiles

\* the number of pages of the document given to the i-th provider call
PagesSent(i) == Len(b64decode(calls[i].pdf_base64).pages)

\* C28: when a second provider call has been made for a paper of at least
\* one page, its document has fewer pages than the document of the first call.
C28_RetrySendsFewerPages ==
    (Len(calls) = 2 /\ PagesSent(1) >= 1) => PagesSent(2) < PagesSent(1)

\* the run has ended: normally, by sys.exit(1), or by an uncaught exception
Done == pc = "done"
Failed == pc \in {"failed", "crashed"}

\* C29: every run ends, in Done with exit code 0 or in Failed with exit
\* code 1; once ended nothing changes any more; and a run makes at most two
\* provider calls, the first attempt and the retry.
C29_RunTerminates ==
    /\ <>(Done \/ Failed)
    /\ [][~(Done \/ Failed)]_vars
    /\ [](Done => exit_code = Some(0))
    /\ [](Failed => exit_code = Some(1))
    /\ [](Len(calls) <= 2)

\* C29 witness: a run ended in failure after the first attempt and the retry
C29_Witness ==
    /\ Failed
    /\ Len(calls) = 2
    /\ calls[1].raised
    /\ calls[2].raised

\* the providers whose key a configuration dictionary holds
ProvidersWithKey(cfg) ==
    {p \in PROVIDERS : (p \o "_api_key") \in DOMAIN cfg /\ cfg[p \o "_api_key"] # ""}

\* the lines printed that are prompts for the default provider, not the
\* closing "Default provider: <name>"
DefaultProviderPrompts ==
    {line \in {stdout[i] : i \in DOMAIN stdout} :
        line = "Default provider: " \/ StartsWith(line, "Default provider [")}

\* C30: only the last step of cmd_init writes a file; the configuration it
\* saves holds at least one API key and a default_provider whose key it
\* holds; and every prompt for the default provider offers a provider
\* whose key is in the configuration being built.
C30_SavedDefaultHasKey ==
    /\ [][ /\ (fs' # fs) => (pc = "init_models")
           /\ (pc = "init_models")
                 => (/\ DOMAIN fs' = DOMAIN fs \cup {CONFIG_FILE}
                     /\ fs'[CONFIG_FILE].kind = "json"
                     /\ ProvidersWithKey(fs'[CONFIG_FILE].content) # {}
                     /\ "default_provider" \in DOMAIN fs'[CONFIG_FILE].content
                     /\ fs'[CONFIG_FILE].content["default_provider"]
                            \in ProvidersWithKey(fs'[CONFIG_FILE].content))
         ]_vars
    /\ [](DefaultProviderPrompts
              \subseteq {"Default provider [" \o p \o "]: " : p \in ProvidersWithKey(config)})

\* C30 witness: with a saved default that is no provider, the prompt offered
\* openai, an answer was rejected, and the configuration saved names openrouter
C30_Witness ==
    /\ pc = "done"
    /\ PathExists(fs, CONFIG_FILE)
    /\ fs[CONFIG_FILE].content = config
    /\ ProvidersWithKey(config) = {"openai", "openrouter"}
    /\ config["default_provider"] = "openrouter"
    /\ "Default provider [openai]: " \in DefaultProviderPrompts
    /\ Rejections = 1

====
